---------------------------- MODULE Spec2Model ----------------------------
(***************************************************************************)
(* State machine of quixstreams.state.manager.StateStoreManager: the       *)
(* registry of state stores, the rebalance callbacks, clear_stores and     *)
(* the state directory, together with the collaborators the manager calls  *)
(* (Store, store transactions, RecoveryManager, the file system).          *)
(***************************************************************************)
EXTENDS Integers, Sequences, FiniteSets, TLC

VARIABLES
    cfg,         \* constructor arguments kept by the manager (producer, recovery manager, default store type)
    state_dir,   \* state_dir[m]: the _state_dir of manager m (1: the manager, 2: a second manager on the same root)
    stores,      \* _stores, as the sequence of registered stores in insertion order
    changelogs,  \* recovery manager: the <<topic, store_name>> of each register_changelog call, in order
    rmAssigned,  \* recovery manager: the <<topic, partition>> pairs it tracks
    flushed,     \* number of mutations flushed (committed) to the stores' backends
    fs,          \* the directories that exist on disk, each a path (sequence of components)
    last,        \* the last manager call: operation, arguments, exception raised, calls made, value returned
    source,      \* a FileSource: its fields, the position of run() and what it has emitted
    entered,     \* whether the manager is inside its with-block (between __enter__ and __exit__)
    generator    \* a TemperatureGenerator: its fields, the position of run() and its last event

vars == <<cfg, state_dir, stores, changelogs, rmAssigned, flushed, fs, last, source,
          entered, generator>>

-----------------------------------------------------------------------------
(* Bounds and input domains *)

MaxStores == 3       \* stores registered in one run
MaxRegStores == 2    \* stores registered in one run of SpecReg
MaxFlushed == 1      \* committed mutations in one run
MaxOpenTx == 1       \* transactions open at the same time
MaxEvents == 6       \* events of a TemperatureGenerator that a run is followed for
WarmCount == 300     \* the event count from which a run in progress is followed

NoTopic == "None"    \* topic None: a global store
Topics == {"t1", "t2"}
Names == {"default", "w"}
Partitions == {0, 1}
Offsets == {7}       \* committed_offsets arguments, as tokens (0: none)

RocksDBStore == "RocksDBStore"
MemoryStore == "MemoryStore"
WindowedRocksDBStore == "WindowedRocksDBStore"
OtherStore == "OtherStore"        \* a store_type that is neither of SUPPORTED_STORES
NoType == "NoType"                \* store_type=None
SUPPORTED_STORES == {RocksDBStore, MemoryStore}
StoreTypeArgs == {NoType, RocksDBStore, MemoryStore, OtherStore}

NoDir == <<"None">>               \* state_dir None
Root == <<"state">>               \* Path(state_dir).absolute()
NoGroup == <<>>                   \* group_id None
\* group_id strings, as the path components pathlib splits them into
GroupIds == {<<"a">>, <<"b">>, <<"a", "b">>}

-----------------------------------------------------------------------------
(* Helpers *)

IsPrefix(p, q) == Len(p) <= Len(q) /\ SubSeq(q, 1, Len(p)) = p

\* One call made by a handler on a collaborator.
Call(fn, topic, name, id, part, arg) ==
    [fn |-> fn, topic |-> topic, name |-> name, id |-> id, part |-> part, arg |-> arg]

\* the position of call c in the sequence of calls, 0 when it was not made
Pos(calls, c) ==
    IF \E k \in 1..Len(calls) : calls[k] = c
    THEN CHOOSE k \in 1..Len(calls) : calls[k] = c /\ \A j \in 1..(k - 1) : calls[j] # c
    ELSE 0

Count(calls, c) == Cardinality({k \in 1..Len(calls) : calls[k] = c})

NoName == "-"
NoPart == 0 - 1   \* no partition argument
NoRet == {}

Last(op, m, topic, name, part, arg, raised, calls, ret) ==
    [op |-> op, mgr |-> m, topic |-> topic, name |-> name, part |-> part, arg |-> arg,
     raised |-> raised, calls |-> calls, ret |-> ret,
     store_type |-> NoType,                   \* the store_type argument of register_store
     passed |-> {<<NoName, <<0, NoPart>>>>},  \* the store_partitions handed to the recovery manager
     store |-> 0,                             \* the Store that get_store returns, 0 when it raises
     required |-> FALSE]                      \* the value of recovery_required

\* no manager call yet, or a step of a store transaction since the last one
Idle == Last("idle", 0, NoTopic, NoName, NoPart, 0, "none", <<>>, {})

-----------------------------------------------------------------------------
(* The registry: self._stores, Dict[topic, Dict[store_name, Store]].  A store *)
(* is never removed, so the registry is kept as the sequence of stores in    *)
(* insertion order; a store's index is its identity, and the order of a      *)
(* topic's stores in the sequence is the iteration order of its dict.        *)

Store(obj, topic, name, type, clf) ==
    [obj |-> obj,                          \* the identity of the Store object
     topic |-> topic, name |-> name, type |-> type,
     changelog_producer_factory |-> clf,   \* TRUE: a ChangelogProducerFactory, FALSE: None
     partitions |-> {},                    \* the assigned partitions
     open |-> {},                          \* partitions with an open transaction
     dirty |-> {}]                         \* partitions whose open transaction buffers a mutation

\* self._stores.get(topic, {}).get(store_name): the store's index, 0 for None
GetStore(reg, topic, name) ==
    IF \E i \in 1..Len(reg) : reg[i].topic = topic /\ reg[i].name = name
    THEN CHOOSE i \in 1..Len(reg) : reg[i].topic = topic /\ reg[i].name = name
    ELSE 0

RECURSIVE TopicStoresFrom(_, _, _)
TopicStoresFrom(reg, topic, i) ==
    IF i > Len(reg) THEN <<>>
    ELSE (IF reg[i].topic = topic THEN <<i>> ELSE <<>>) \o TopicStoresFrom(reg, topic, i + 1)

\* self._stores.get(topic, {}).items()/.values(): the topic's stores, in insertion order
TopicStores(reg, topic) == TopicStoresFrom(reg, topic, 1)

RegisteredKeys(reg) == {<<reg[i].topic, reg[i].name>> : i \in 1..Len(reg)}

-----------------------------------------------------------------------------
(* RecoveryManager, as the manager uses it *)

\* RecoveryManager.register_changelog(topic_name, store_name, topic_config)
RegisterChangelog(chl, topic, name) == Append(chl, <<topic, name>>)

\* how many times a changelog was registered for <<topic, name>>
Changelogs(chl, topic, name) ==
    Cardinality({k \in 1..Len(chl) : chl[k] = <<topic, name>>})

\* RecoveryManager.assign_partition(topic, partition, committed_offsets, store_partitions)
RMAssignPartition(rm, topic, partition) == rm \cup {<<topic, partition>>}

\* RecoveryManager.revoke_partition(partition_num): the call names no topic
RMRevokePartition(rm, partition) == {tp \in rm : tp[2] # partition}

-----------------------------------------------------------------------------
(* StateStoreManager._setup_changelogs *)

\* [chl: the recovery manager's changelogs after the call, calls, factory: whether a
\*  ChangelogProducerFactory is returned (None otherwise)]
SetupChangelogs(c, chl, topic, name) ==
    IF ~c.recovery_manager \/ ~c.producer
    THEN [chl |-> chl, calls |-> <<>>, factory |-> FALSE]
    ELSE [chl |-> RegisterChangelog(chl, topic, name),
          calls |-> <<Call("rm.register_changelog", topic, name, 0, NoPart, 0)>>,
          factory |-> TRUE]

(* StateStoreManager.register_store *)

RegisterStoreTwice(c, reg, chl, topic, name, store_type) ==
    LET setup == SetupChangelogs(c, chl, topic, name)
        type == IF store_type = NoType THEN c.default_store_type ELSE store_type
    IN  IF type \in SUPPORTED_STORES
        THEN [stores |-> IF GetStore(reg, topic, name) = 0
                         THEN Append(reg, Store(Len(reg) + 1, topic, name, type, setup.factory))
                         ELSE [reg EXCEPT ![GetStore(reg, topic, name)] =
                                   Store(Len(reg) + 1, topic, name, type, setup.factory)],
              chl |-> setup.chl, calls |-> setup.calls, raised |-> "none"]
        ELSE [stores |-> reg, chl |-> setup.chl, calls |-> setup.calls,
              raised |-> "ValueError"]

RegisterStoreResult(c, reg, chl, topic, name, store_type) ==
    IF GetStore(reg, topic, name) = 0
    THEN LET setup == SetupChangelogs(c, chl, topic, name)
             \* store_type or self.default_store_type
             type == IF store_type = NoType THEN c.default_store_type ELSE store_type
         IN  IF type = RocksDBStore \/ type = MemoryStore
             THEN [stores |-> Append(reg, Store(Len(reg) + 1, topic, name, type, setup.factory)),
                   chl |-> setup.chl, calls |-> setup.calls, raised |-> "none"]
             ELSE \* the changelog is registered before the type is looked at
                  [stores |-> reg, chl |-> setup.chl, calls |-> setup.calls,
                   raised |-> "ValueError"]
    ELSE [stores |-> reg, chl |-> chl, calls |-> <<>>, raised |-> "none"]

RegisterStore(topic, name, store_type) ==
    LET r == RegisterStoreResult(cfg, stores, changelogs, topic, name, store_type)
    IN  /\ stores' = r.stores
        /\ changelogs' = r.chl
        /\ last' = [Last("register_store", 1, topic, name, NoPart, 0,
                         r.raised, r.calls, NoRet) EXCEPT !.store_type = store_type]
        /\ UNCHANGED <<cfg, state_dir, rmAssigned, flushed, fs, source, entered, generator>>

(* StateStoreManager.register_windowed_store *)

RegisterWindowedStoreOver(c, reg, chl, topic, name) ==
    LET setup == SetupChangelogs(c, chl, topic, name)
        i == GetStore(reg, topic, name)
        w == Store(Len(reg) + 1, topic, name, WindowedRocksDBStore, setup.factory)
    IN  [stores |-> IF i = 0 THEN Append(reg, w) ELSE [reg EXCEPT ![i] = w],
         chl |-> setup.chl, calls |-> setup.calls, raised |-> "none"]

RegisterWindowedStoreResult(c, reg, chl, topic, name) ==
    IF GetStore(reg, topic, name) # 0
    THEN [stores |-> reg, chl |-> chl, calls |-> <<>>,
          raised |-> "WindowedStoreAlreadyRegisteredError"]
    ELSE LET setup == SetupChangelogs(c, chl, topic, name)
         IN  [stores |-> Append(reg, Store(Len(reg) + 1, topic, name, WindowedRocksDBStore, setup.factory)),
              chl |-> setup.chl, calls |-> setup.calls, raised |-> "none"]

RegisterWindowedStore(topic, name) ==
    LET r == RegisterWindowedStoreResult(cfg, stores, changelogs, topic, name)
    IN  /\ stores' = r.stores
        /\ changelogs' = r.chl
        /\ last' = Last("register_windowed_store", 1, topic, name, NoPart, NoType,
                        r.raised, r.calls, NoRet)
        /\ UNCHANGED <<cfg, state_dir, rmAssigned, flushed, fs, source, entered, generator>>

(* StateStoreManager.get_store *)

\* as get_store, but the store is looked up by its name in the stores of every topic
GetStoreAnyTopic(reg, topic, name) ==
    IF \E i \in 1..Len(reg) : reg[i].name = name
    THEN [store |-> reg[CHOOSE i \in 1..Len(reg) : reg[i].name = name].obj, raised |-> "none"]
    ELSE [store |-> 0, raised |-> "StoreNotRegisteredError"]

GetStoreResult(reg, topic, name) ==
    LET store == GetStore(reg, topic, name)
    IN  IF store = 0
        THEN [store |-> 0, raised |-> "StoreNotRegisteredError"]
        ELSE [store |-> reg[store].obj, raised |-> "none"]

ManagerGetStore(topic, name) ==
    LET r == GetStoreResult(stores, topic, name)
    IN  /\ last' = [Last("get_store", 1, topic, name, NoPart, 0, r.raised, <<>>, NoRet)
                       EXCEPT !.store = r.store]
        /\ UNCHANGED <<cfg, state_dir, stores, changelogs, rmAssigned, flushed, fs, source,
                       entered, generator>>

(* StateStoreManager.recovery_required, do_recovery, stop_recovery *)

\* has_assignments: what the recovery manager answers, when there is one
RecoveryRequiredResult(c, has_assignments) ==
    IF c.recovery_manager THEN has_assignments ELSE FALSE

RecoveryRequired(has_assignments) ==
    /\ last' = [Last("recovery_required", 1, NoTopic, NoName, NoPart, 0, "none", <<>>, NoRet)
                   EXCEPT !.required = RecoveryRequiredResult(cfg, has_assignments)]
    /\ UNCHANGED <<cfg, state_dir, stores, changelogs, rmAssigned, flushed, fs, source,
                   entered, generator>>

\* as do_recovery / stop_recovery, but without the test for a recovery manager
RecoveryUnguarded(c, fn) ==
    [calls |-> <<Call(fn, NoTopic, NoName, 0, NoPart, 0)>>, raised |-> "none"]

\* do_recovery (fn: "rm.do_recovery") and stop_recovery (fn: "rm.stop_recovery"):
\* the same test, then the call of the recovery manager's method
RecoveryResult(c, fn) ==
    IF ~c.recovery_manager
    THEN [calls |-> <<>>, raised |-> "RuntimeError"]
    ELSE [calls |-> <<Call(fn, NoTopic, NoName, 0, NoPart, 0)>>, raised |-> "none"]

DoRecovery ==
    LET r == RecoveryResult(cfg, "rm.do_recovery")
    IN  /\ last' = Last("do_recovery", 1, NoTopic, NoName, NoPart, 0, r.raised, r.calls, NoRet)
        /\ UNCHANGED <<cfg, state_dir, stores, changelogs, rmAssigned, flushed, fs, source,
                       entered, generator>>

StopRecovery ==
    LET r == RecoveryResult(cfg, "rm.stop_recovery")
    IN  /\ last' = Last("stop_recovery", 1, NoTopic, NoName, NoPart, 0, r.raised, r.calls, NoRet)
        /\ UNCHANGED <<cfg, state_dir, stores, changelogs, rmAssigned, flushed, fs, source,
                       entered, generator>>

-----------------------------------------------------------------------------
(* Store: assign_partition, revoke_partition, close; and the transactions of *)
(* a store partition                                                         *)

\* Store.assign_partition(partition): idempotent
StoreAssignPartition(st, partition) ==
    [st EXCEPT !.partitions = @ \cup {partition}]

\* the StorePartition that Store.assign_partition returns
StorePartition(i, partition) == <<i, partition>>

\* Store.revoke_partition(partition) raises PartitionStoreIsUsed
StoreRevokeRaises(st, partition) == partition \in st.open

\* Store.revoke_partition(partition), when it does not raise: closes the partition
StoreRevokePartition(st, partition) ==
    [st EXCEPT !.partitions = @ \ {partition}]

\* Store.close(): revokes all partitions; running transactions are rolled back
StoreClose(st) ==
    [st EXCEPT !.partitions = {}, !.open = {}, !.dirty = {}]

OpenTransactions(reg) ==
    {<<i, p>> \in (1..Len(reg)) \X Partitions : p \in reg[i].open}

\* StorePartition.begin()
Begin(i, p) ==
    /\ i \in 1..Len(stores)
    /\ p \in stores[i].partitions
    /\ p \notin stores[i].open
    /\ Cardinality(OpenTransactions(stores)) < MaxOpenTx
    /\ stores' = [stores EXCEPT ![i].open = @ \cup {p}]
    /\ last' = Idle
    /\ UNCHANGED <<cfg, state_dir, changelogs, rmAssigned, flushed, fs, source, entered, generator>>

\* tx.put(key, value) / tx.delete(key): appended to the transaction, not to the store
Put(i, p) ==
    /\ i \in 1..Len(stores)
    /\ p \in stores[i].open
    /\ stores' = [stores EXCEPT ![i].dirty = @ \cup {p}]
    /\ last' = Idle
    /\ UNCHANGED <<cfg, state_dir, changelogs, rmAssigned, flushed, fs, source, entered, generator>>

\* tx.commit(): flushes the mutations
Commit(i, p) ==
    /\ i \in 1..Len(stores)
    /\ p \in stores[i].open
    /\ p \in stores[i].dirty => flushed < MaxFlushed
    /\ flushed' = IF p \in stores[i].dirty THEN flushed + 1 ELSE flushed
    /\ stores' = [stores EXCEPT ![i].open = @ \ {p}, ![i].dirty = @ \ {p}]
    /\ last' = Idle
    /\ UNCHANGED <<cfg, state_dir, changelogs, rmAssigned, fs, source, entered, generator>>

\* tx.rollback(): discards the mutations
Rollback(i, p) ==
    /\ i \in 1..Len(stores)
    /\ p \in stores[i].open
    /\ stores' = [stores EXCEPT ![i].open = @ \ {p}, ![i].dirty = @ \ {p}]
    /\ last' = Idle
    /\ UNCHANGED <<cfg, state_dir, changelogs, rmAssigned, flushed, fs, source, entered, generator>>

-----------------------------------------------------------------------------
(* StateStoreManager.on_partition_assign *)

\* store_partitions, the dict returned: {<<store_name, StorePartition>>}
AssignedStorePartitions(reg, idxs, partition) ==
    {<<reg[idxs[k]].name, StorePartition(idxs[k], partition)>> : k \in 1..Len(idxs)}

\* as on_partition_assign, but over the stores of every topic
OnPartitionAssignAllStores(c, reg, rm, topic, partition, offsets) ==
    LET idxs == [i \in 1..Len(reg) |-> i]
        store_partitions == AssignedStorePartitions(reg, idxs, partition)
        storeCalls == [k \in 1..Len(idxs) |->
                          Call("store.assign_partition", reg[idxs[k]].topic,
                               reg[idxs[k]].name, idxs[k], partition, 0)]
        enlist == c.recovery_manager /\ store_partitions # {}
    IN  [stores |-> [i \in 1..Len(reg) |-> StoreAssignPartition(reg[i], partition)],
         rm |-> IF enlist THEN RMAssignPartition(rm, topic, partition) ELSE rm,
         calls |-> IF enlist
                   THEN Append(storeCalls,
                               Call("rm.assign_partition", topic, NoName, 0, partition, offsets))
                   ELSE storeCalls,
         passed |-> IF enlist THEN store_partitions ELSE {<<NoName, StorePartition(0, NoPart)>>},
         ret |-> store_partitions,
         raised |-> "none"]

\* as on_partition_assign, but the recovery manager is enlisted before the stores are
\* assigned, with no store partitions yet
OnPartitionAssignRMFirst(c, reg, rm, topic, partition, offsets) ==
    LET idxs == TopicStores(reg, topic)
        store_partitions == AssignedStorePartitions(reg, idxs, partition)
        storeCalls == [k \in 1..Len(idxs) |->
                          Call("store.assign_partition", reg[idxs[k]].topic,
                               reg[idxs[k]].name, idxs[k], partition, 0)]
        enlist == c.recovery_manager /\ idxs # <<>>
    IN  [stores |-> [i \in 1..Len(reg) |->
                        IF reg[i].topic = topic THEN StoreAssignPartition(reg[i], partition)
                        ELSE reg[i]],
         rm |-> IF enlist THEN RMAssignPartition(rm, topic, partition) ELSE rm,
         calls |-> IF enlist
                   THEN <<Call("rm.assign_partition", topic, NoName, 0, partition, offsets)>>
                        \o storeCalls
                   ELSE storeCalls,
         passed |-> IF enlist THEN {} ELSE {<<NoName, StorePartition(0, NoPart)>>},
         ret |-> store_partitions,
         raised |-> "none"]

OnPartitionAssignResult(c, reg, rm, topic, partition, offsets) ==
    LET idxs == TopicStores(reg, topic)
        store_partitions == AssignedStorePartitions(reg, idxs, partition)
        storeCalls == [k \in 1..Len(idxs) |->
                          Call("store.assign_partition", reg[idxs[k]].topic,
                               reg[idxs[k]].name, idxs[k], partition, 0)]
        assigned == [i \in 1..Len(reg) |->
                        IF reg[i].topic = topic THEN StoreAssignPartition(reg[i], partition)
                        ELSE reg[i]]
        enlist == c.recovery_manager /\ store_partitions # {}
    IN  [stores |-> assigned,
         rm |-> IF enlist THEN RMAssignPartition(rm, topic, partition) ELSE rm,
         calls |-> IF enlist
                   THEN Append(storeCalls,
                               Call("rm.assign_partition", topic, NoName, 0, partition, offsets))
                   ELSE storeCalls,
         \* the store_partitions argument of recovery_manager.assign_partition, None when not called
         passed |-> IF enlist THEN store_partitions ELSE {<<NoName, StorePartition(0, NoPart)>>},
         ret |-> store_partitions,
         raised |-> "none"]

OnPartitionAssign(topic, partition, offsets) ==
    LET r == OnPartitionAssignResult(cfg, stores, rmAssigned, topic, partition, offsets)
    IN  /\ stores' = r.stores
        /\ rmAssigned' = r.rm
        /\ last' = [Last("on_partition_assign", 1, topic, NoName, partition, offsets,
                         r.raised, r.calls, r.ret) EXCEPT !.passed = r.passed]
        /\ UNCHANGED <<cfg, state_dir, changelogs, flushed, fs, source, entered, generator>>

-----------------------------------------------------------------------------
(* StateStoreManager.on_partition_revoke *)

RECURSIVE RevokeStores(_, _, _, _)
\* for store in stores: store.revoke_partition(partition=partition), from the k-th on;
\* an exception of a store ends the loop and the call
RevokeStores(reg, idxs, k, partition) ==
    IF k > Len(idxs) THEN [stores |-> reg, calls |-> <<>>, raised |-> "none"]
    ELSE LET i == idxs[k]
             call == Call("store.revoke_partition", reg[i].topic, reg[i].name, i, partition, 0)
         IN  IF StoreRevokeRaises(reg[i], partition)
             THEN [stores |-> reg, calls |-> <<call>>, raised |-> "PartitionStoreIsUsed"]
             ELSE LET rest == RevokeStores([reg EXCEPT ![i] = StoreRevokePartition(@, partition)],
                                           idxs, k + 1, partition)
                  IN  [rest EXCEPT !.calls = <<call>> \o @]

\* as on_partition_revoke, but the stores are revoked before the recovery manager
OnPartitionRevokeStoresFirst(c, reg, rm, topic, partition) ==
    LET idxs == TopicStores(reg, topic)
        loop == RevokeStores(reg, idxs, 1, partition)
    IN  IF idxs = <<>>
        THEN [stores |-> reg, rm |-> rm, calls |-> <<>>, raised |-> "none"]
        ELSE IF c.recovery_manager /\ loop.raised = "none"
        THEN [stores |-> loop.stores,
              rm |-> RMRevokePartition(rm, partition),
              calls |-> Append(loop.calls,
                               Call("rm.revoke_partition", NoTopic, NoName, 0, partition, 0)),
              raised |-> loop.raised]
        ELSE [stores |-> loop.stores, rm |-> rm, calls |-> loop.calls, raised |-> loop.raised]

\* as on_partition_revoke, but a store that cannot be revoked is skipped: its
\* exception is caught, its open transaction is committed and its partition closed
OnPartitionRevokeSwallow(c, reg, rm, topic, partition) ==
    LET idxs == TopicStores(reg, topic)
    IN  [stores |-> [i \in 1..Len(reg) |->
                        IF reg[i].topic = topic
                        THEN [reg[i] EXCEPT !.partitions = @ \ {partition},
                                            !.open = @ \ {partition},
                                            !.dirty = @ \ {partition}]
                        ELSE reg[i]],
         rm |-> IF c.recovery_manager /\ idxs # <<>> THEN RMRevokePartition(rm, partition)
                ELSE rm,
         calls |-> (IF c.recovery_manager /\ idxs # <<>>
                    THEN <<Call("rm.revoke_partition", NoTopic, NoName, 0, partition, 0)>>
                    ELSE <<>>)
                   \o [k \in 1..Len(idxs) |->
                          Call("store.revoke_partition", reg[idxs[k]].topic,
                               reg[idxs[k]].name, idxs[k], partition, 0)],
         raised |-> "none"]

OnPartitionRevokeResult(c, reg, rm, topic, partition) ==
    LET idxs == TopicStores(reg, topic)
    IN  IF idxs = <<>>
        THEN [stores |-> reg, rm |-> rm, calls |-> <<>>, raised |-> "none"]
        ELSE LET loop == RevokeStores(reg, idxs, 1, partition)
             IN  IF c.recovery_manager
                 THEN [stores |-> loop.stores,
                       rm |-> RMRevokePartition(rm, partition),
                       calls |-> <<Call("rm.revoke_partition", NoTopic, NoName, 0, partition, 0)>>
                                 \o loop.calls,
                       raised |-> loop.raised]
                 ELSE [stores |-> loop.stores, rm |-> rm, calls |-> loop.calls,
                       raised |-> loop.raised]

OnPartitionRevoke(topic, partition) ==
    LET r == OnPartitionRevokeResult(cfg, stores, rmAssigned, topic, partition)
    IN  /\ stores' = r.stores
        /\ rmAssigned' = r.rm
        /\ last' = Last("on_partition_revoke", 1, topic, NoName, partition, 0,
                        r.raised, r.calls, NoRet)
        /\ UNCHANGED <<cfg, state_dir, changelogs, flushed, fs, source, entered, generator>>

-----------------------------------------------------------------------------
(* The state directory: __init__, _init_state_dir / init, clear_stores *)

\* __init__: Path(state_dir).absolute() / group_id; dir and group are sequences of
\* path components, and "/" appends the components of its right operand
StateDirOf(dir, group) ==
    IF dir = NoDir THEN NoDir
    ELSE IF group = NoGroup THEN dir
    ELSE dir \o group

\* Path.mkdir(parents=True): the directory and its missing parents
Mkdir(disk, path) == disk \cup {SubSeq(path, 1, n) : n \in 1..Len(path)}

\* shutil.rmtree(path, ignore_errors=True): the directory and all below it
Rmtree(disk, path) == {d \in disk : ~IsPrefix(path, d)}

\* Only directories exist in the modelled file system, so a path that exists is a
\* directory and the FileExistsError of _init_state_dir is not raised.
InitStateDirResult(disk, dir) ==
    IF dir = NoDir THEN [fs |-> disk, raised |-> "none"]
    ELSE IF dir \in disk THEN [fs |-> disk, raised |-> "none"]
    ELSE [fs |-> Mkdir(disk, dir), raised |-> "none"]

\* the registry of manager m: the second manager registers no store
StoresOf(m) == IF m = 1 THEN stores ELSE <<>>

ManagerInit(m) ==
    LET r == InitStateDirResult(fs, state_dir[m])
    IN  /\ fs' = r.fs
        /\ last' = Last("init", m, NoTopic, NoName, NoPart, 0, r.raised, <<>>, NoRet)
        /\ UNCHANGED <<cfg, state_dir, stores, changelogs, rmAssigned, flushed, source,
                       entered, generator>>

\* as clear_stores, but only the stores of named topics are looked at
ClearStoresSkipGlobal(reg, disk, dir) ==
    IF \E i \in 1..Len(reg) : reg[i].topic # NoTopic /\ reg[i].partitions # {}
    THEN [fs |-> disk, raised |-> "PartitionStoreIsUsed"]
    ELSE IF dir # NoDir
         THEN [fs |-> Rmtree(disk, dir), raised |-> "none"]
         ELSE [fs |-> disk, raised |-> "none"]

ClearStoresResult(reg, disk, dir) ==
    IF \E i \in 1..Len(reg) : reg[i].partitions # {}
    THEN [fs |-> disk, raised |-> "PartitionStoreIsUsed"]
    ELSE IF dir # NoDir
         THEN [fs |-> Rmtree(disk, dir), raised |-> "none"]
         ELSE [fs |-> disk, raised |-> "none"]

ClearStores(m) ==
    LET r == ClearStoresResult(StoresOf(m), fs, state_dir[m])
    IN  /\ fs' = r.fs
        /\ last' = Last("clear_stores", m, NoTopic, NoName, NoPart, 0, r.raised, <<>>, NoRet)
        /\ UNCHANGED <<cfg, state_dir, stores, changelogs, rmAssigned, flushed, source,
                       entered, generator>>

(* StateStoreManager.close *)

RECURSIVE TopicKeysFrom(_, _, _)
TopicKeysFrom(reg, i, seen) ==
    IF i > Len(reg) THEN <<>>
    ELSE IF reg[i].topic \in seen THEN TopicKeysFrom(reg, i + 1, seen)
    ELSE <<reg[i].topic>> \o TopicKeysFrom(reg, i + 1, seen \cup {reg[i].topic})

\* the keys of self._stores, in insertion order
TopicKeys(reg) == TopicKeysFrom(reg, 1, {})

RECURSIVE AllStoresFrom(_, _, _)
\* for topic_stores in self._stores.values(): for store in topic_stores.values()
AllStoresFrom(reg, topics, k) ==
    IF k > Len(topics) THEN <<>>
    ELSE TopicStores(reg, topics[k]) \o AllStoresFrom(reg, topics, k + 1)

\* as close, but the registry is emptied once the stores are closed
CloseForget(reg) ==
    LET order == AllStoresFrom(reg, TopicKeys(reg), 1)
    IN  [stores |-> <<>>,
         calls |-> [k \in 1..Len(order) |->
                       Call("store.close", reg[order[k]].topic, reg[order[k]].name,
                            order[k], NoPart, 0)],
         raised |-> "none"]

\* as close, but only the stores of named topics are closed
CloseNamedTopics(reg) ==
    LET order == SelectSeq(AllStoresFrom(reg, TopicKeys(reg), 1),
                           LAMBDA i : reg[i].topic # NoTopic)
    IN  [stores |-> [i \in 1..Len(reg) |->
                        IF reg[i].topic # NoTopic THEN StoreClose(reg[i]) ELSE reg[i]],
         calls |-> [k \in 1..Len(order) |->
                       Call("store.close", reg[order[k]].topic, reg[order[k]].name,
                            order[k], NoPart, 0)],
         raised |-> "none"]

CloseResult(reg) ==
    LET order == AllStoresFrom(reg, TopicKeys(reg), 1)
    IN  [stores |-> [i \in 1..Len(reg) |-> StoreClose(reg[i])],
         calls |-> [k \in 1..Len(order) |->
                       Call("store.close", reg[order[k]].topic, reg[order[k]].name,
                            order[k], NoPart, 0)],
         raised |-> "none"]

Close ==
    LET r == CloseResult(stores)
    IN  /\ stores' = r.stores
        /\ last' = Last("close", 1, NoTopic, NoName, NoPart, 0, r.raised, r.calls, NoRet)
        /\ UNCHANGED <<cfg, state_dir, changelogs, rmAssigned, flushed, fs, source,
                       entered, generator>>

(* StateStoreManager.__enter__ / __exit__: "with manager: <body>" *)

\* __enter__: init(), and the body of the with-block begins
ManagerEnter ==
    LET r == InitStateDirResult(fs, state_dir[1])
    IN  /\ ~entered
        /\ fs' = r.fs
        /\ entered' = (r.raised = "none")
        /\ last' = Last("__enter__", 1, NoTopic, NoName, NoPart, 0, r.raised, <<>>, NoRet)
        /\ UNCHANGED <<cfg, state_dir, stores, changelogs, rmAssigned, flushed, source,
                       generator>>

\* __exit__(exc_type, exc_val, exc_tb): close(); it returns None, so an exception of
\* the body (body_raised) goes on to the caller of the with-block
ManagerExit(body_raised) ==
    LET r == CloseResult(stores)
    IN  /\ entered
        /\ stores' = r.stores
        /\ entered' = FALSE
        /\ last' = Last("__exit__", 1, NoTopic, NoName, NoPart, 0,
                        IF body_raised THEN "BodyError" ELSE r.raised, r.calls, NoRet)
        /\ UNCHANGED <<cfg, state_dir, changelogs, rmAssigned, flushed, fs, source,
                       generator>>

-----------------------------------------------------------------------------
(* quixstreams.sources.community.file.FileSource.  A name is a string, kept   *)
(* as the sequence of its characters, and the characters are digits; a path  *)
(* is the sequence of names below the filepath of the source.  The folder is  *)
(* laid out as the FileSink writes it: <partition>/<file>.                    *)

\* str < str: lexicographic on the characters
NameLess(a, b) ==
    \E k \in 1..(Len(a) + 1) :
        /\ k <= Len(b)
        /\ \A j \in 1..(k - 1) : j <= Len(a) /\ a[j] = b[j]
        /\ (k <= Len(a) => a[k] < b[k])

RECURSIVE IntOf(_)
\* int(name) of a string of decimal digits
IntOf(name) ==
    IF Len(name) = 0 THEN 0
    ELSE IntOf(SubSeq(name, 1, Len(name) - 1)) * 10 + name[Len(name)]

RECURSIVE ReverseSortedNames(_)
\* as sorted(..., key=lambda x: x.name), but in descending order
ReverseSortedNames(names) ==
    IF names = {} THEN <<>>
    ELSE LET first == CHOOSE a \in names : \A b \in names \ {a} : NameLess(b, a)
         IN  <<first>> \o ReverseSortedNames(names \ {first})

RECURSIVE SortedNames(_)
\* sorted(filepath.iterdir(), key=lambda x: x.name), as the names of the entries
SortedNames(names) ==
    IF names = {} THEN <<>>
    ELSE LET first == CHOOSE a \in names : \A b \in names \ {a} : NameLess(a, b)
         IN  <<first>> \o SortedNames(names \ {first})

\* filepath.iterdir(): the names of the entries of directory path in the tree
IterDir(tree, path) ==
    {f.path[Len(path) + 1] : f \in {g \in tree : Len(g.path) > Len(path) /\ IsPrefix(path, g.path)}}

\* filepath.is_dir(); the filepath of the source itself is a directory
IsDir(tree, path) ==
    path = <<>> \/ \E f \in tree : Len(f.path) > Len(path) /\ IsPrefix(path, f.path)

RECURSIVE FileFinder(_, _)
RECURSIVE FileFinderEach(_, _, _, _)
\* for i in sorted(filepath.iterdir(), ...): yield from _file_finder(i), from the k-th entry
FileFinderEach(tree, path, entries, k) ==
    IF k > Len(entries) THEN <<>>
    ELSE FileFinder(tree, Append(path, entries[k])) \o FileFinderEach(tree, path, entries, k + 1)

\* _file_finder(filepath): the paths it yields, in order
FileFinder(tree, path) ==
    IF IsDir(tree, path)
    THEN FileFinderEach(tree, path, SortedNames(IterDir(tree, path)), 1)
    ELSE <<path>>

\* self._formatter.file_read(file): the _timestamp of each record of the file
FileRead(tree, path) == (CHOOSE f \in tree : f.path = path).records

NoTimestamp == 0 - 1   \* _previous_timestamp None; timestamps are not negative

\* one thing the source does that is seen outside: sleep(time_diff), with arg the
\* time_diff in milliseconds, before record rec of the file; produce of record rec of
\* the file, with arg its timestamp; flush() after the file
Event(ev, path, rec, arg) == [ev |-> ev, path |-> path, rec |-> rec, arg |-> arg]

\* FileSource.__init__, and Source.start() which sets the running flag
FileSourceNew(tree, as_replay) ==
    [tree |-> tree, as_replay |-> as_replay,
     previous_timestamp |-> NoTimestamp, previous_partition |-> NoPart,
     running |-> TRUE,
     pc |-> "start",       \* where run() is: start, files, records, returned
     entered |-> FALSE,    \* whether the body of "while self._running" was entered
     files |-> <<>>,       \* the files the generator has still to yield
     file |-> <<>>,        \* the file of the loop body
     rec |-> 0,            \* the number of records read from it
     out |-> <<>>]         \* the events so far

\* as _check_file_partition_number, but the timestamp is kept
CheckFilePartitionNumberKeep(src, file) ==
    LET partition == IntOf(file[Len(file) - 1])
    IN  IF src.previous_partition # partition
        THEN [src EXCEPT !.previous_partition = partition]
        ELSE src

\* _check_file_partition_number(file)
CheckFilePartitionNumber(src, file) ==
    LET partition == IntOf(file[Len(file) - 1])   \* int(file.parent.name)
    IN  IF src.previous_partition # partition
        THEN [src EXCEPT !.previous_timestamp = NoTimestamp,
                         !.previous_partition = partition]
        ELSE src

\* _replay_delay(current_timestamp): time_diff is kept in milliseconds
ReplayDelay(src, current_timestamp) ==
    LET time_diff == current_timestamp - src.previous_timestamp
        slept == IF src.previous_timestamp # NoTimestamp /\ time_diff > 0
                 THEN [src EXCEPT !.out = Append(@, Event("sleep", src.file, src.rec + 1, time_diff))]
                 ELSE src
    IN  [slept EXCEPT !.previous_timestamp = current_timestamp]

\* _produce(record)
Produce(src, timestamp) ==
    [src EXCEPT !.out = Append(@, Event("produce", src.file, src.rec + 1, timestamp)),
                !.rec = @ + 1]

\* run(): the test of "while self._running" and the call of _file_finder
RunStart ==
    /\ source.pc = "start"
    /\ source' = IF source.running
                 THEN [source EXCEPT !.pc = "files", !.entered = TRUE,
                                     !.files = FileFinder(source.tree, <<>>)]
                 ELSE [source EXCEPT !.pc = "returned"]
    /\ UNCHANGED <<cfg, state_dir, stores, changelogs, rmAssigned, flushed, fs, last,
                   entered, generator>>

\* run(): the next file of the for loop, or the return after the last one
RunNextFile ==
    /\ source.pc = "files"
    /\ source' = IF source.files = <<>>
                 THEN [source EXCEPT !.pc = "returned"]
                 ELSE [CheckFilePartitionNumber(source, Head(source.files))
                          EXCEPT !.pc = "records", !.file = Head(source.files),
                                 !.files = Tail(source.files), !.rec = 0]
    /\ UNCHANGED <<cfg, state_dir, stores, changelogs, rmAssigned, flushed, fs, last,
                   entered, generator>>

\* run(): the next record of the file: the replay delay and the produce
RunNextRecord ==
    /\ source.pc = "records"
    /\ source.rec < Len(FileRead(source.tree, source.file))
    /\ LET timestamp == FileRead(source.tree, source.file)[source.rec + 1]
       IN  source' = IF source.as_replay
                     THEN Produce(ReplayDelay(source, timestamp), timestamp)
                     ELSE Produce(source, timestamp)
    /\ UNCHANGED <<cfg, state_dir, stores, changelogs, rmAssigned, flushed, fs, last,
                   entered, generator>>

\* run(): self.flush() after the last record of the file
RunFlush ==
    /\ source.pc = "records"
    /\ source.rec = Len(FileRead(source.tree, source.file))
    /\ source' = [source EXCEPT !.out = Append(@, Event("flush", source.file, 0, 0)),
                                !.pc = "files"]
    /\ UNCHANGED <<cfg, state_dir, stores, changelogs, rmAssigned, flushed, fs, last,
                   entered, generator>>

\* Source.stop(), from the thread that shuts the application down
Stop ==
    /\ source.pc # "returned"
    /\ source.running
    /\ source' = [source EXCEPT !.running = FALSE]
    /\ UNCHANGED <<cfg, state_dir, stores, changelogs, rmAssigned, flushed, fs, last,
                   entered, generator>>

-----------------------------------------------------------------------------
(* docs/tutorials/anomaly-detection/tutorial_app.py: TemperatureGenerator *)

\* % chance of a change of -1, 0, 1 at a temperature in the 40's, 50's, ...
probabilities_normal ==
    (40 :> <<0, 0, 100>>) @@ (50 :> <<20, 30, 50>>) @@ (60 :> <<30, 40, 30>>) @@
    (70 :> <<40, 50, 10>>) @@ (80 :> <<80, 10, 10>>) @@ (90 :> <<100, 0, 0>>)

probabilities_issue ==
    (40 :> <<0, 0, 100>>) @@ (50 :> <<0, 10, 90>>) @@ (60 :> <<5, 15, 80>>) @@
    (70 :> <<5, 20, 75>>) @@ (80 :> <<5, 20, 75>>) @@ (90 :> <<10, 20, 70>>)

machine_types ==
    (0 :> probabilities_normal) @@ (1 :> probabilities_normal) @@ (2 :> probabilities_issue)

MachineIds == DOMAIN machine_types

\* the population of random.choices
Changes == <<0 - 1, 0, 1>>

\* (self.machine_temps[machine_id] // 10) * 10
Decade(temp) == (temp \div 10) * 10

\* str(machine_id)
Str(machine_id) == <<"0", "1", "2">>[machine_id + 1]

NoEvent == [key |-> "None", Temperature_C |-> 0]

\* __init__, and Source.start() which sets the running flag
TemperatureGeneratorNew ==
    [event_count |-> 0,
     machine_temps |-> (0 :> 66) @@ (1 :> 58) @@ (2 :> 62),
     running |-> TRUE,
     pc |-> "run",        \* where run() is: run (the test of the loop), returned, KeyError
     event |-> NoEvent]   \* the last event produced

\* what random.choices([-1, 0, 1], weights) can return for the machine: the indexes of
\* the changes of non-zero weight; the empty set stands for the KeyError of the
\* lookup when the table has no entry for the decade
Choices(g, machine_id) ==
    LET key == Decade(g.machine_temps[machine_id])
    IN  IF key \in DOMAIN machine_types[machine_id]
        THEN {c \in 1..3 : machine_types[machine_id][key][c] > 0}
        ELSE {}

\* update_machine_temp(machine_id), with c the index of the change drawn
UpdateMachineTemp(g, machine_id, c) ==
    [g EXCEPT !.machine_temps[machine_id] = @ + Changes[c]]

\* as generate_event, but the source is never stopped
GenerateEventNoStop(g, c) ==
    LET machine_id == g.event_count % 3
        updated == UpdateMachineTemp(g, machine_id, c)
    IN  [updated EXCEPT !.event = [key |-> Str(machine_id),
                                   Temperature_C |-> updated.machine_temps[machine_id]],
                        !.event_count = @ + 1]

\* generate_event(), with c the index of the change drawn; self.stop() clears the
\* running flag
GenerateEventResult(g, c) ==
    LET machine_id == g.event_count % 3
        updated == UpdateMachineTemp(g, machine_id, c)
        counted == [updated EXCEPT !.event = [key |-> Str(machine_id),
                                              Temperature_C |-> updated.machine_temps[machine_id]],
                                   !.event_count = @ + 1]
    IN  IF counted.machine_temps[machine_id] = 100
        THEN [counted EXCEPT !.running = FALSE]
        ELSE counted

\* run(): one turn of "while self.running": generate_event, serialize, produce, sleep
GeneratorRun ==
    /\ generator.pc = "run"
    /\ generator.running
    /\ IF Choices(generator, generator.event_count % 3) = {}
       THEN generator' = [generator EXCEPT !.pc = "KeyError"]
       ELSE \E c \in Choices(generator, generator.event_count % 3) :
               generator' = GenerateEventResult(generator, c)
    /\ UNCHANGED <<cfg, state_dir, stores, changelogs, rmAssigned, flushed, fs, last,
                   source, entered>>

\* run(): the loop ends once the running flag is cleared
GeneratorReturn ==
    /\ generator.pc = "run"
    /\ ~generator.running
    /\ generator' = [generator EXCEPT !.pc = "returned"]
    /\ UNCHANGED <<cfg, state_dir, stores, changelogs, rmAssigned, flushed, fs, last,
                   source, entered>>

\* Source.stop(), from the thread that shuts the application down
GeneratorStop ==
    /\ generator.pc = "run"
    /\ generator.running
    /\ generator' = [generator EXCEPT !.running = FALSE]
    /\ UNCHANGED <<cfg, state_dir, stores, changelogs, rmAssigned, flushed, fs, last,
                   source, entered>>

-----------------------------------------------------------------------------
(* Specifications.  Each fixes the constructor arguments that its claims do   *)
(* not depend on and draws the others, and the arguments of the calls, from   *)
(* small sets.                                                                *)

Config(producer, recovery_manager, default_store_type) ==
    [producer |-> producer, recovery_manager |-> recovery_manager,
     default_store_type |-> default_store_type]

\* default_store_type keeps its default, RocksDBStore
Configs == {Config(pr, rm, RocksDBStore) : pr \in BOOLEAN, rm \in BOOLEAN}

\* no FileSource
NoSource == [pc |-> "none"]

\* no TemperatureGenerator
NoGenerator == [pc |-> "none"]

Fresh ==
    /\ source = NoSource
    /\ generator = NoGenerator
    /\ entered = FALSE
    /\ stores = <<>>
    /\ changelogs = <<>>
    /\ rmAssigned = {}
    /\ flushed = 0
    /\ last = Idle

(* SpecReg: registration, with and without a producer and a recovery         *)
(* manager, on a global store (topic None) and a topic.                       *)

RegTopics == {NoTopic, "t1"}

InitReg ==
    /\ cfg \in Configs
    /\ state_dir = <<NoDir, NoDir>>
    /\ fs = {}
    /\ Fresh

\* the registry and the recovery manager's log of changelogs stay within the bounds
BoundedReg == Len(stores') <= MaxRegStores /\ Len(changelogs') <= MaxRegStores + 1

NextReg ==
    \/ \E t \in RegTopics, n \in Names, st \in StoreTypeArgs :
          RegisterStore(t, n, st) /\ BoundedReg
    \/ \E t \in RegTopics, n \in Names : RegisterWindowedStore(t, n) /\ BoundedReg

SpecReg == InitReg /\ [][NextReg]_vars

(* Spec: stores of two topics and the rebalance callbacks, with and without  *)
(* a recovery manager.                                                        *)

Init ==
    /\ \E rm \in BOOLEAN : cfg = Config(FALSE, rm, RocksDBStore)
    /\ state_dir = <<NoDir, NoDir>>
    /\ fs = {}
    /\ Fresh

Next ==
    \/ \E t \in Topics, n \in Names : RegisterStore(t, n, NoType) /\ Len(stores') <= MaxStores
    \/ \E t \in Topics, p \in Partitions, o \in Offsets : OnPartitionAssign(t, p, o)
    \/ \E t \in Topics, p \in Partitions : OnPartitionRevoke(t, p)

Spec == Init /\ [][Next]_vars

(* SpecTx: the stores of one topic, registered in any way, the rebalance     *)
(* callbacks and the transactions on the store partitions.                    *)

NextTx ==
    \/ \E n \in Names : RegisterStore("t1", n, NoType)
    \/ \E n \in Names : RegisterWindowedStore("t1", n)
    \/ \E p \in Partitions, o \in Offsets : OnPartitionAssign("t1", p, o)
    \/ \E p \in Partitions : OnPartitionRevoke("t1", p)
    \/ \E i \in 1..Len(stores), p \in Partitions : Begin(i, p)
    \/ \E i \in 1..Len(stores), p \in Partitions : Put(i, p)
    \/ \E i \in 1..Len(stores), p \in Partitions : Commit(i, p)
    \/ \E i \in 1..Len(stores), p \in Partitions : Rollback(i, p)

SpecTx == Init /\ [][NextTx]_vars

(* SpecLife: one manager with a state directory and the stores of one topic, *)
(* through all of its operations, with lookups on two topics.                *)

InitLife ==
    /\ \E rm \in BOOLEAN : cfg = Config(FALSE, rm, RocksDBStore)
    /\ state_dir = <<StateDirOf(Root, <<"a">>), NoDir>>
    /\ fs = {}
    /\ Fresh

NextLife ==
    \/ \E n \in Names, st \in {NoType, MemoryStore} : RegisterStore("t1", n, st)
    \/ \E n \in Names : RegisterWindowedStore("t1", n)
    \/ \E t \in Topics, n \in Names : ManagerGetStore(t, n)
    \/ \E h \in BOOLEAN : RecoveryRequired(h)
    \/ DoRecovery
    \/ StopRecovery
    \/ \E p \in Partitions, o \in Offsets : OnPartitionAssign("t1", p, o)
    \/ \E p \in Partitions : OnPartitionRevoke("t1", p)
    \/ ManagerInit(1)
    \/ ClearStores(1)
    \/ Close

SpecLife == InitLife /\ [][NextLife]_vars

(* SpecClose: a manager used in a with-block or closed by hand, with a       *)
(* global store and a store of a topic, and transactions on their partitions. *)

InitClose ==
    /\ cfg = Config(FALSE, FALSE, RocksDBStore)
    /\ state_dir = <<StateDirOf(Root, <<"a">>), NoDir>>
    /\ fs = {}
    /\ Fresh

NextClose ==
    \/ ManagerEnter
    \/ \E b \in BOOLEAN : ManagerExit(b)
    \/ Close
    \/ ClearStores(1)
    \/ \E t \in RegTopics : RegisterStore(t, "default", NoType)
    \/ \E t \in RegTopics, p \in Partitions, o \in Offsets : OnPartitionAssign(t, p, o)
    \/ \E t \in RegTopics, p \in Partitions : OnPartitionRevoke(t, p)
    \/ \E i \in 1..Len(stores), p \in Partitions : Begin(i, p)
    \/ \E i \in 1..Len(stores), p \in Partitions : Rollback(i, p)

SpecClose == InitClose /\ [][NextClose]_vars

(* SpecDirs: two managers on one state root, the first with stores.          *)

\* a state directory left by an earlier run: the directory and a store's directory in it
Populated(dir) == IF dir = NoDir THEN {} ELSE Mkdir({}, dir \o <<"default">>)

InitDirs ==
    /\ cfg = Config(FALSE, FALSE, RocksDBStore)
    /\ \E d \in {NoDir, Root}, g1 \in GroupIds \cup {NoGroup}, g2 \in GroupIds :
          /\ g1 # g2
          /\ state_dir = <<StateDirOf(d, g1), StateDirOf(Root, g2)>>
    /\ fs \in {{}, Populated(state_dir[1]) \cup Populated(state_dir[2])}
    /\ Fresh

NextDirs ==
    \/ \E m \in {1, 2} : ManagerInit(m)
    \/ \E m \in {1, 2} : ClearStores(m)
    \/ \E t \in RegTopics : RegisterStore(t, "default", NoType)
    \/ \E t \in RegTopics, p \in Partitions, o \in Offsets : OnPartitionAssign(t, p, o)
    \/ \E t \in RegTopics, p \in Partitions : OnPartitionRevoke(t, p)

SpecDirs == InitDirs /\ [][NextDirs]_vars

(* SpecFile: a FileSource on a topic folder, run once, and stopped at any     *)
(* moment.  FairSpecFile: run() is not held up for ever.                      *)

File(path, records) == [path |-> path, records |-> records]

\* partitions "10" and "2", the second with two files; timestamps that rise, fall and repeat
TreeTwoPartitions ==
    {File(<<<<1, 0>>, <<0>>>>, <<5, 5, 9>>),
     File(<<<<2>>, <<0>>>>, <<12>>),
     File(<<<<2>>, <<1>>>>, <<10, 14>>)}

\* one partition, one file, the first timestamp 0
TreeOneFile == {File(<<<<0>>, <<0>>>>, <<0, 2>>)}

\* a file without records before a file with one
TreeEmptyFile ==
    {File(<<<<0>>, <<0>>>>, <<>>),
     File(<<<<1>>, <<0>>>>, <<4>>)}

\* a folder without files
TreeEmpty == {}

Trees == {TreeTwoPartitions, TreeOneFile, TreeEmptyFile, TreeEmpty}

InitFile ==
    /\ \E tree \in Trees, as_replay \in BOOLEAN : source = FileSourceNew(tree, as_replay)
    /\ generator = NoGenerator
    /\ entered = FALSE
    /\ cfg = Config(FALSE, FALSE, RocksDBStore)
    /\ state_dir = <<NoDir, NoDir>>
    /\ fs = {}
    /\ stores = <<>>
    /\ changelogs = <<>>
    /\ rmAssigned = {}
    /\ flushed = 0
    /\ last = Idle

Run == RunStart \/ RunNextFile \/ RunNextRecord \/ RunFlush

NextFile ==
    \/ RunStart
    \/ RunNextFile
    \/ RunNextRecord
    \/ RunFlush
    \/ Stop

SpecFile == InitFile /\ [][NextFile]_vars

FairSpecFile == SpecFile /\ WF_vars(Run)

(* SpecGen: a TemperatureGenerator, followed from its start and from the      *)
(* states of a run in progress in which the temperatures are at the ends of   *)
(* their ranges.                                                              *)

\* a run in progress after event_count events: the machines at temperatures that the
\* tables let them get to, the last event that of the machine updated last
Warm(event_count, t0, t1, t2) ==
    LET temps == (0 :> t0) @@ (1 :> t1) @@ (2 :> t2)
        machine_id == (event_count - 1) % 3
    IN  [event_count |-> event_count,
         machine_temps |-> temps,
         running |-> TRUE,
         pc |-> "run",
         event |-> [key |-> Str(machine_id), Temperature_C |-> temps[machine_id]]]

\* temperatures at the ends of the decades: of a normal machine, which moves within
\* 49..90, and of the machine with the issue, which moves within 59..100
NormalTemps == {49, 50, 59, 60, 69, 70, 79, 80, 89, 90}
IssueTemps == {59, 60, 69, 70, 79, 80, 89, 90, 98, 99}

InitGen ==
    /\ \/ generator = TemperatureGeneratorNew
       \/ \E k \in 0..2, t0 \in NormalTemps, t1 \in {49, 58, 90}, t2 \in IssueTemps :
             generator = Warm(WarmCount + k, t0, t1, t2)
    /\ source = NoSource
    /\ entered = FALSE
    /\ cfg = Config(FALSE, FALSE, RocksDBStore)
    /\ state_dir = <<NoDir, NoDir>>
    /\ fs = {}
    /\ stores = <<>>
    /\ changelogs = <<>>
    /\ rmAssigned = {}
    /\ flushed = 0
    /\ last = Idle

\* the events a run is followed for
EventLimit(g) == (IF g.event_count >= WarmCount THEN WarmCount ELSE 0) + MaxEvents

NextGen ==
    \/ GeneratorRun /\ generator'.event_count <= EventLimit(generator)
    \/ GeneratorReturn
    \/ GeneratorStop

SpecGen == InitGen /\ [][NextGen]_vars

-----------------------------------------------------------------------------
(* Claims on registration, under SpecReg *)

\* store_type or self.default_store_type, for the store_type argument of the last call
RequestedType == IF last.store_type = NoType THEN cfg.default_store_type ELSE last.store_type

\* C1: once a store is registered at (T, S), a register_store(T, S) call is a no-op:
\* the registry holds the same store objects under the same keys, no changelog is
\* registered with the recovery manager, and nothing is raised.
C1_RegisterStoreNoOp ==
    [][(last'.op = "register_store" /\ GetStore(stores, last'.topic, last'.name) # 0)
         => /\ stores' = stores
            /\ RegisteredKeys(stores') = RegisteredKeys(stores)
            /\ changelogs' = changelogs
            /\ last'.calls = <<>>
            /\ last'.raised = "none"]_vars

\* C1 witness: register_store was called again on a pair that register_store had
\* registered before, in a manager that registers changelogs.
C1_Witness ==
    /\ last.op = "register_store"
    /\ cfg.producer /\ cfg.recovery_manager
    /\ Len(stores) = 2
    /\ GetStore(stores, last.topic, last.name) = 1
    /\ stores[1].type \in SUPPORTED_STORES

\* C2: register_windowed_store(T, S) raises WindowedStoreAlreadyRegisteredError when
\* any store is registered at (T, S), leaving the registry and the changelogs as they
\* were; when (T, S) is free it adds a windowed store at (T, S).
C2_RegisterWindowedStore ==
    [][last'.op = "register_windowed_store"
         => IF GetStore(stores, last'.topic, last'.name) # 0
            THEN /\ last'.raised = "WindowedStoreAlreadyRegisteredError"
                 /\ stores' = stores
                 /\ changelogs' = changelogs
            ELSE /\ last'.raised = "none"
                 /\ Len(stores') = Len(stores) + 1
                 /\ SubSeq(stores', 1, Len(stores)) = stores
                 /\ stores'[Len(stores')].topic = last'.topic
                 /\ stores'[Len(stores')].name = last'.name
                 /\ stores'[Len(stores')].type = WindowedRocksDBStore]_vars

\* C2 witness: register_windowed_store raised over a store that is not windowed.
C2_Witness ==
    /\ last.op = "register_windowed_store"
    /\ last.raised = "WindowedStoreAlreadyRegisteredError"
    /\ GetStore(stores, last.topic, last.name) # 0
    /\ stores[GetStore(stores, last.topic, last.name)].type = MemoryStore

\* C3 (as claimed): a register_store(T, S, store_type) call for a supported store type,
\* made when (T, S) holds a store of another type, is rejected with an error.
C3_ConflictRejected ==
    (/\ last.op = "register_store"
     /\ RequestedType \in SUPPORTED_STORES
     /\ GetStore(stores, last.topic, last.name) # 0
     /\ stores[GetStore(stores, last.topic, last.name)].type # RequestedType)
        => last.raised # "none"

\* C12 (as claimed): a register_store(T, S, store_type) call with a store type that is
\* neither RocksDBStore nor MemoryStore raises an error, and the call registers nothing:
\* the registry and the changelogs of the recovery manager are as before the call.
C12_UnknownTypeRejected ==
    [][(/\ last'.op = "register_store"
        /\ last'.store_type # NoType
        /\ last'.store_type \notin SUPPORTED_STORES)
         => /\ last'.raised # "none"
            /\ stores' = stores
            /\ changelogs' = changelogs]_vars

\* C18 (as claimed): a changelog is registered with the recovery manager exactly for the
\* registered (topic, store_name) pairs of a manager with a producer and a recovery
\* manager, once for each; without one of the two no changelog is registered; and a
\* store has a changelog producer factory exactly in a manager that has both.
C18_ChangelogSetup ==
    /\ \A t \in RegTopics, n \in Names :
           Changelogs(changelogs, t, n) =
               IF cfg.producer /\ cfg.recovery_manager /\ <<t, n>> \in RegisteredKeys(stores)
               THEN 1 ELSE 0
    /\ \A i \in 1..Len(stores) :
           stores[i].changelog_producer_factory = (cfg.producer /\ cfg.recovery_manager)

-----------------------------------------------------------------------------
(* Claims on the rebalance callbacks, under Spec and SpecTx *)

StoreCall(fn, reg, i, partition) == Call(fn, reg[i].topic, reg[i].name, i, partition, 0)

\* C4: on_partition_assign(topic, partition, offsets) calls assign_partition(partition)
\* exactly once on every store registered under the topic and on no other store, and
\* returns exactly one entry per registered store name of the topic, the StorePartition
\* of that store.
C4_AssignFanOut ==
    last.op = "on_partition_assign"
        => /\ \A i \in 1..Len(stores) :
                 Count(last.calls, StoreCall("store.assign_partition", stores, i, last.part))
                     = IF stores[i].topic = last.topic THEN 1 ELSE 0
           /\ \A k \in 1..Len(last.calls) :
                 last.calls[k].fn = "store.assign_partition"
                     => /\ last.calls[k].id \in 1..Len(stores)
                        /\ last.calls[k] = StoreCall("store.assign_partition", stores,
                                                     last.calls[k].id, last.part)
           /\ {e[1] : e \in last.ret} = {stores[i].name : i \in {j \in 1..Len(stores) :
                                                               stores[j].topic = last.topic}}
           /\ \A e \in last.ret :
                 e[2] = StorePartition(GetStore(stores, last.topic, e[1]), last.part)

\* C4 witness: an assignment on a topic with two stores while another topic has a store.
C4_Witness ==
    /\ last.op = "on_partition_assign"
    /\ Len(TopicStores(stores, last.topic)) = 2
    /\ Len(stores) = 3
    /\ Cardinality(last.ret) = 2

\* C5 (as claimed): with a recovery manager configured, every on_partition_assign call
\* calls recovery_manager.assign_partition for the topic and partition.
C5_AlwaysEnlisted ==
    (last.op = "on_partition_assign" /\ cfg.recovery_manager)
        => Count(last.calls, Call("rm.assign_partition", last.topic, NoName, 0,
                                  last.part, last.arg)) = 1

\* C5 (amended): with a recovery manager configured, an on_partition_assign call on a
\* topic with at least one registered store calls recovery_manager.assign_partition once,
\* for that topic and partition, with the committed offsets and the store partitions just
\* assigned, after every store's assign_partition; on a topic without stores the
\* recovery manager is not called.
C5_EnlistedWhenStores ==
    (last.op = "on_partition_assign" /\ cfg.recovery_manager)
        => LET rmCall == Call("rm.assign_partition", last.topic, NoName, 0, last.part, last.arg)
           IN  IF TopicStores(stores, last.topic) # <<>>
               THEN /\ Len(last.calls) = Len(TopicStores(stores, last.topic)) + 1
                    /\ last.calls[Len(last.calls)] = rmCall
                    /\ \A k \in 1..(Len(last.calls) - 1) :
                          last.calls[k].fn = "store.assign_partition"
                    /\ last.passed = last.ret
                    /\ last.ret # {}
                    /\ <<last.topic, last.part>> \in rmAssigned
               ELSE \A k \in 1..Len(last.calls) : last.calls[k].fn # "rm.assign_partition"

\* C5 witness: an assignment on a topic with two stores, with a recovery manager.
C5_Witness ==
    /\ last.op = "on_partition_assign"
    /\ cfg.recovery_manager
    /\ Len(TopicStores(stores, last.topic)) = 2
    /\ Len(last.calls) = 3


C7_SameAssignment ==
    \A i, j \in 1..Len(stores) :
        stores[i].topic = stores[j].topic => stores[i].partitions = stores[j].partitions

\* C9: on_partition_revoke(topic, partition) while a store of the topic has an open
\* transaction on the partition raises PartitionStoreIsUsed, and nothing of an open
\* transaction is flushed: the transactions stay open with their mutations.
C9_RevokeSafety ==
    [][(/\ last'.op = "on_partition_revoke"
        /\ \E i \in 1..Len(stores) :
              stores[i].topic = last'.topic /\ last'.part \in stores[i].open)
         => /\ last'.raised = "PartitionStoreIsUsed"
            /\ flushed' = flushed
            /\ \A i \in 1..Len(stores) :
                  /\ stores'[i].open = stores[i].open
                  /\ stores'[i].dirty = stores[i].dirty]_vars

\* C9 witness: a revoke raised on a partition whose open transaction holds a mutation,
\* after an earlier transaction was committed.
C9_Witness ==
    /\ last.op = "on_partition_revoke"
    /\ last.raised = "PartitionStoreIsUsed"
    /\ \E i \in 1..Len(stores) : stores[i].topic = last.topic /\ last.part \in stores[i].dirty
    /\ flushed = 1

\* C19 (as claimed): an on_partition_revoke(topic, partition) call that raises leaves
\* the manager as before the call: every store of the topic that held the partition
\* still holds it, and the recovery manager still tracks the partition.
C19_FailedRevokeAtomic ==
    [][(last'.op = "on_partition_revoke" /\ last'.raised # "none")
         => /\ \A i \in 1..Len(stores) :
                  (stores[i].topic = last'.topic /\ last'.part \in stores[i].partitions)
                      => last'.part \in stores'[i].partitions
            /\ <<last'.topic, last'.part>> \in rmAssigned
                  => <<last'.topic, last'.part>> \in rmAssigned']_vars

\* the part of C20 on the stores: an on_partition_assign(T, p) or on_partition_revoke(T, p)
\* call changes the assigned partitions of the stores of T only, and only by p, and a
\* revoke on a topic without stores calls neither a store nor the recovery manager
StoreFrame ==
    /\ \A i \in 1..Len(stores) :
          /\ stores[i].topic # last'.topic => stores'[i].partitions = stores[i].partitions
          /\ stores'[i].partitions \ {last'.part} = stores[i].partitions \ {last'.part}
    /\ (last'.op = "on_partition_revoke" /\ TopicStores(stores, last'.topic) = <<>>)
          => last'.calls = <<>> /\ rmAssigned' = rmAssigned

\* C20 (as claimed): on_partition_assign(T, p) and on_partition_revoke(T, p) change the
\* assigned partitions of the stores of T only, and only by p; a revoke on a topic
\* without stores calls neither a store nor the recovery manager; and a revoke on T
\* leaves what the recovery manager tracks for the other topics as it was.
C20_TopicPartitionFrame ==
    [][last'.op \in {"on_partition_assign", "on_partition_revoke"}
         => /\ StoreFrame
            /\ last'.op = "on_partition_revoke"
                  => {tp \in rmAssigned' : tp[1] # last'.topic}
                         = {tp \in rmAssigned : tp[1] # last'.topic}]_vars

-----------------------------------------------------------------------------
(* Claims on clear_stores and the state directory, under SpecDirs *)

Below(disk, dir) == {d \in disk : IsPrefix(dir, d)}

\* C8: clear_stores() raises PartitionStoreIsUsed and deletes nothing when a store of
\* any topic, the global one included, has an assigned partition; otherwise it succeeds
\* and the manager's state directory is absent afterwards.
C8_ClearGuard ==
    [][last'.op = "clear_stores"
         => IF \E i \in 1..Len(StoresOf(last'.mgr)) : StoresOf(last'.mgr)[i].partitions # {}
            THEN last'.raised = "PartitionStoreIsUsed" /\ fs' = fs
            ELSE /\ last'.raised = "none"
                 /\ state_dir[last'.mgr] # NoDir => Below(fs', state_dir[last'.mgr]) = {}]_vars

\* C8 witness: clear_stores raised, with the state directory on disk, while the only
\* store with an assigned partition is a global one.
C8_Witness ==
    /\ last.op = "clear_stores"
    /\ last.mgr = 1
    /\ last.raised = "PartitionStoreIsUsed"
    /\ state_dir[1] \in fs
    /\ \A i \in 1..Len(stores) : stores[i].partitions # {} => stores[i].topic = NoTopic

\* C10 (as claimed): two managers with the same state_dir and distinct group_ids use
\* disjoint directories, and clear_stores() on one leaves the directory of the other
\* and all below it as they were.
C10_DirectoryIsolation ==
    [][(/\ last'.op = "clear_stores"
        /\ state_dir[1] \notin {NoDir, Root})
         => Below(fs', state_dir[3 - last'.mgr]) = Below(fs, state_dir[3 - last'.mgr])]_vars

-----------------------------------------------------------------------------
(* Claims on lookups, recovery and the lifetime of the stores, under SpecLife *)

\* C11: get_store(topic, store_name) raises StoreNotRegisteredError exactly when no store
\* is registered at (topic, store_name), and otherwise returns the store registered at
\* that pair; a store of the same name under another topic does not answer the lookup.
C11_GetStore ==
    last.op = "get_store"
        => IF \E i \in 1..Len(stores) :
                 stores[i].topic = last.topic /\ stores[i].name = last.name
           THEN /\ last.raised = "none"
                /\ last.store \in 1..Len(stores)
                /\ stores[last.store].obj = last.store
                /\ stores[last.store].topic = last.topic
                /\ stores[last.store].name = last.name
           ELSE /\ last.raised = "StoreNotRegisteredError"
                /\ last.store = 0

\* C11 witness: a lookup raised on a topic without stores while another topic holds a
\* store of that name.
C11_Witness ==
    /\ last.op = "get_store"
    /\ last.raised = "StoreNotRegisteredError"
    /\ \E i \in 1..Len(stores) : stores[i].name = last.name /\ stores[i].topic # last.topic

\* C13: without a recovery manager, do_recovery() and stop_recovery() raise an error
\* and change no state, and recovery_required is false; with a recovery manager each
\* call of do_recovery() / stop_recovery() makes exactly one call, of the recovery
\* manager's method of that name, and raises nothing.
C13_RecoveryNeedsManager ==
    [][/\ last'.op \in {"do_recovery", "stop_recovery"}
          => IF cfg.recovery_manager
             THEN /\ last'.raised = "none"
                  /\ last'.calls = <<Call(IF last'.op = "do_recovery" THEN "rm.do_recovery"
                                                                      ELSE "rm.stop_recovery",
                                          NoTopic, NoName, 0, NoPart, 0)>>
             ELSE /\ last'.raised = "RuntimeError"
                  /\ last'.calls = <<>>
                  /\ UNCHANGED <<cfg, state_dir, stores, changelogs, rmAssigned, flushed, fs>>
       /\ (last'.op = "recovery_required" /\ ~cfg.recovery_manager)
          => last'.required = FALSE]_vars

\* C13 witness: do_recovery() raised in a manager without a recovery manager that has a
\* store with an assigned partition.
C13_Witness ==
    /\ last.op = "do_recovery"
    /\ last.raised = "RuntimeError"
    /\ ~cfg.recovery_manager
    /\ \E i \in 1..Len(stores) : stores[i].partitions # {}

\* the kinds of a store: windowed or not, durable or in memory
Windowed(st) == st.type = WindowedRocksDBStore
Durable(st) == st.type \in {RocksDBStore, WindowedRocksDBStore}

\* C17: no manager operation removes a registered store from the registry or puts
\* another store object at its (topic, store_name): every entry stays, with its object
\* and its kind, and no two entries, so no windowed and non-windowed store, share a
\* (topic, store_name).
C17_StorePersistence ==
    [][/\ Len(stores') >= Len(stores)
       /\ \A i \in 1..Len(stores) :
             /\ GetStore(stores', stores[i].topic, stores[i].name) = i
             /\ stores'[i].obj = stores[i].obj
             /\ Windowed(stores'[i]) = Windowed(stores[i])
             /\ Durable(stores'[i]) = Durable(stores[i])
       /\ \A i, j \in 1..Len(stores') :
             (stores'[i].topic = stores'[j].topic /\ stores'[i].name = stores'[j].name)
                 => i = j]_vars

\* C17 witness: close() was called on a manager holding a windowed and a non-windowed
\* store, with its state directory on disk.
C17_Witness ==
    /\ last.op = "close"
    /\ Len(last.calls) = 2
    /\ \E i, j \in 1..Len(stores) : Windowed(stores[i]) /\ ~Windowed(stores[j])
    /\ state_dir[1] \in fs

-----------------------------------------------------------------------------
(* Claims on close and the with-block, under SpecClose *)

\* C21: close() calls close() once on every registered store of every topic, the
\* global stores included, and after it no store has an assigned partition, so that
\* a clear_stores() that follows it succeeds; and leaving the with-block calls close()
\* in the same way, whether or not the body raised.
C21_CloseAll ==
    [][/\ last'.op \in {"close", "__exit__"}
          => /\ Len(last'.calls) = Len(stores)
             /\ \A i \in 1..Len(stores) :
                   Count(last'.calls, StoreCall("store.close", stores, i, NoPart)) = 1
             /\ \A i \in 1..Len(stores') : stores'[i].partitions = {}
             /\ last'.op = "close" => last'.raised = "none"
       /\ (last.op \in {"close", "__exit__"} /\ last'.op = "clear_stores" /\ last'.mgr = 1)
          => /\ last'.raised = "none"
             /\ Below(fs', state_dir[1]) = {}
       /\ (entered /\ ~entered') => last'.op = "__exit__"]_vars

\* C21 witness: the with-block was left by an exception of its body, and close() was
\* called on a global store and on a store of a topic, with the state directory on disk.
C21_Witness ==
    /\ last.op = "__exit__"
    /\ last.raised = "BodyError"
    /\ \E k \in 1..Len(last.calls) : last.calls[k].topic = NoTopic
    /\ \E k \in 1..Len(last.calls) : last.calls[k].topic # NoTopic
    /\ state_dir[1] \in fs

-----------------------------------------------------------------------------
(* Claims on the FileSource, under SpecFile and FairSpecFile *)

\* the events of kind ev, in order
Events(out, ev) == SelectSeq(out, LAMBDA e : e.ev = ev)

\* the partition of a file: the number its directory is named by
PartitionOf(path) == IntOf(path[Len(path) - 1])

\* C14 (as claimed): once the running flag has been cleared during a run, run()
\* produces no further record.
C14_StopsProducing ==
    [][(source.pc \in {"files", "records"} /\ ~source.running)
         => Events(source'.out, "produce") = Events(source.out, "produce")]_vars

\* C15: with as_replay, the source sleeps before a record exactly when a record of the
\* same partition was produced before it and the record's timestamp is greater than
\* the timestamp of the last such record, and then for the difference, just before the
\* record is produced; so never before the first record of a partition.  Without
\* as_replay it never sleeps.
C15_ReplayPacing ==
    source.pc # "none"
        => /\ ~source.as_replay => Events(source.out, "sleep") = <<>>
           /\ \A k \in 1..Len(source.out) :
                 source.out[k].ev = "sleep"
                     => /\ k < Len(source.out)
                        /\ source.out[k + 1].ev = "produce"
                        /\ source.out[k + 1].path = source.out[k].path
                        /\ source.out[k + 1].rec = source.out[k].rec
           /\ source.as_replay
                 => \A k \in 1..Len(source.out) :
                       source.out[k].ev = "produce"
                           => LET same == {j \in 1..(k - 1) :
                                              /\ source.out[j].ev = "produce"
                                              /\ PartitionOf(source.out[j].path)
                                                     = PartitionOf(source.out[k].path)}
                                  slept == k > 1 /\ source.out[k - 1].ev = "sleep"
                              IN  IF same = {}
                                  THEN ~slept
                                  ELSE LET prev == CHOOSE j \in same : \A i \in same : i <= j
                                           diff == source.out[k].arg - source.out[prev].arg
                                       IN  IF diff > 0
                                           THEN slept /\ source.out[k - 1].arg = diff
                                           ELSE ~slept

\* C15 witness: a replay got to the end of a folder with two partitions, having slept
\* in the second.
C15_Witness ==
    /\ source.pc = "returned"
    /\ source.as_replay
    /\ source.tree = TreeTwoPartitions
    /\ \E k \in 1..Len(source.out) :
          source.out[k].ev = "sleep" /\ PartitionOf(source.out[k].path) = 2

\* path < path: by the names along the paths
PathLess(p, q) ==
    \E k \in 1..Len(p) :
        /\ k <= Len(q)
        /\ \A j \in 1..(k - 1) : p[j] = q[j]
        /\ NameLess(p[k], q[k])

\* the produce and flush events are those of one pass: every record of every file of
\* the tree once, with its timestamp, the files in depth-first order by name, the
\* records of a file in file order, and one flush after the records of each file
OnePass(src) ==
    LET out == SelectSeq(src.out, LAMBDA e : e.ev # "sleep")
    IN  /\ \A f \in src.tree :
              /\ Cardinality({k \in 1..Len(out) : out[k].ev = "flush" /\ out[k].path = f.path}) = 1
              /\ \A r \in 1..Len(f.records) :
                    Cardinality({k \in 1..Len(out) :
                                    out[k] = Event("produce", f.path, r, f.records[r])}) = 1
        /\ \A k \in 1..Len(out) :
              /\ \E f \in src.tree : f.path = out[k].path
              /\ out[k].ev = "produce"
                    => out[k].rec \in 1..Len(FileRead(src.tree, out[k].path))
        /\ \A i, j \in 1..Len(out) :
              i < j => \/ PathLess(out[i].path, out[j].path)
                       \/ /\ out[i].path = out[j].path
                          /\ out[i].ev = "produce"
                          /\ out[j].ev = "produce" => out[i].rec < out[j].rec

\* C16: a run() started with the running flag set returns, and when it has returned it
\* has made exactly one pass over the file tree, whether or not the flag was cleared
\* in the meantime.
C16_SinglePass ==
    /\ [](source.pc = "returned" /\ source.entered => OnePass(source))
    /\ [](source.pc = "files" => <>(source.pc = "returned"))

\* C16 witness: run() has returned from a folder with three files, the flag still set.
C16_Witness ==
    /\ source.pc = "returned"
    /\ source.running
    /\ source.tree = TreeTwoPartitions
    /\ Len(Events(source.out, "flush")) = 3

-----------------------------------------------------------------------------
(* Claims on the TemperatureGenerator, under SpecGen *)

\* every machine's temperature is within 40..100, only machine 2 can be at 100, and the
\* table of the machine that is next has an entry for the decade of its temperature
\* whenever the loop goes on
TempsInRange(g) ==
    /\ \A m \in MachineIds : g.machine_temps[m] \in 40..100
    /\ \A m \in MachineIds \ {2} : g.machine_temps[m] # 100
    /\ g.pc # "KeyError"
    /\ (g.pc = "run" /\ g.running)
          => Decade(g.machine_temps[g.event_count % 3]) \in DOMAIN machine_types[g.event_count % 3]

\* C22: the temperatures stay within 40..100 and the lookup in the probability table is
\* always defined; events are generated for machines 0, 1, 2 in turn; only machine 2
\* reaches 100; and once a machine is at 100 the source is stopped and run() generates
\* no further event.
C22_TemperatureRange ==
    [][/\ TempsInRange(generator) /\ TempsInRange(generator')
       /\ generator'.event_count # generator.event_count
             => /\ generator'.event_count = generator.event_count + 1
                /\ generator'.event.key = Str(generator.event_count % 3)
                /\ generator'.event.Temperature_C
                       = generator'.machine_temps[generator.event_count % 3]
                /\ generator.event # NoEvent
                       => \E m \in MachineIds :
                              /\ generator.event.key = Str(m)
                              /\ generator'.event.key = Str((m + 1) % 3)
                /\ generator.running
       /\ (\E m \in MachineIds : generator'.machine_temps[m] = 100) => ~generator'.running
       /\ (\E m \in MachineIds : generator.machine_temps[m] = 100)
             => generator'.event = generator.event]_vars

\* C22 witness: run() has returned after machine 2 got to 100, the other machines
\* having produced events since the run was taken up.
C22_Witness ==
    /\ generator.pc = "returned"
    /\ generator.machine_temps[2] = 100
    /\ generator.event = [key |-> "2", Temperature_C |-> 100]
    /\ generator.event_count >= WarmCount + 4

=============================================================================
